---- MODULE Spec2Model ----
(***************************************************************************)
(* A model of DeepCombDTI/utils.py: the data parser (parse_data), the      *)
(* parameter builder (get_params) and the two runners (run_validation,     *)
(* run_prediction).                                                        *)
(*                                                                         *)
(* Representation.                                                         *)
(*  - A feature string is a sequence of one-character strings; TAB is the  *)
(*    delimiter.  A decoded number is an integer (the digits' value).      *)
(*  - A Label is held in halves (Label = 2 stands for 1, Label = 1 for     *)
(*    0.5), so that a non-integer label column is representable.           *)
(*  - An array is a sequence of rows, a row a sequence of numbers.         *)
(*  - A raised exception is a result whose err field names the exception.  *)
(*  - A table cell that holds a feature vector is a string, as read_csv     *)
(*    gives it; a drug or protein table maps each identifier to its row.   *)
(*  - type_params and model_params, which get_params returns and no runner *)
(*    of utils.py reads, are not kept beyond the exceptions of building    *)
(*    them.                                                                *)
(***************************************************************************)
EXTENDS Integers, Sequences, FiniteSets, TLC

VARIABLES
    fs,             \* the files on disk: path -> [exists, table]
    args,           \* the arguments of the call under analysis
    pc,             \* the position of the run
    ret,            \* what parse_data returned (or the exception it raised)
    stdout,         \* the lines printed so far
    reads,          \* the paths read from disk so far, in order
    train_dic,      \* the caller's training mapping
    test_dic,       \* the caller's test-set mapping
    train_params,   \* the caller's training hyperparameters
    zip_pos,        \* get_params: the next position of the zipped test lists
    calls,          \* the calls made on the model object, in order, with their returns
    test_predicted, \* run_prediction: what predict returned
    result_df,      \* run_prediction: the result table
    result_columns, \* run_prediction: the column names collected
    writes,         \* the CSV files written, in order
    trace           \* the stages entered and left so far, in order

vars == <<fs, args, pc, ret, stdout, reads, train_dic, test_dic, train_params,
          zip_pos, calls, test_predicted, result_df, result_columns, writes, trace>>

(***************************************************************************)
(* Bounds of the model.                                                    *)
(***************************************************************************)
MaxRows == 2        \* interaction rows per table
MaxVecs == 2        \* requested drug feature names
MaxTests == 2       \* length of each test-set argument list

(***************************************************************************)
(* Small utilities.                                                        *)
(***************************************************************************)
SeqsUpTo(S, n) == UNION {[1..k -> S] : k \in 0..n}

Min(a, b) == IF a <= b THEN a ELSE b

RECURSIVE SumSeq(_)
SumSeq(s) == IF s = <<>> THEN 0 ELSE Head(s) + SumSeq(Tail(s))

RECURSIVE Flatten(_)
Flatten(ss) == IF ss = <<>> THEN <<>> ELSE Head(ss) \o Flatten(Tail(ss))

(***************************************************************************)
(* Feature strings: str.split("\t") and float().                           *)
(***************************************************************************)
TAB == "\t"

DigitChars == <<"0", "1", "2", "3", "4", "5", "6", "7", "8", "9">>

IsDigit(c) == \E d \in 1..Len(DigitChars) : DigitChars[d] = c

DigitVal(c) == (CHOOSE d \in 1..Len(DigitChars) : DigitChars[d] = c) - 1

\* s.split(sep): the pieces between the separators, empty pieces included.
RECURSIVE str_split(_, _)
str_split(s, sep) ==
    IF \A i \in 1..Len(s) : s[i] # sep THEN <<s>>
    ELSE LET p == CHOOSE i \in 1..Len(s) :
                      s[i] = sep /\ \A j \in 1..(i - 1) : s[j] # sep
         IN  <<SubSeq(s, 1, p - 1)>> \o str_split(SubSeq(s, p + 1, Len(s)), sep)

\* fp.split("\t")
split(s) == str_split(s, TAB)

\* float(tok) and int(tok) raise ValueError unless tok is a numeral.
IsNumeral(tok) == tok # <<>> /\ \A i \in 1..Len(tok) : IsDigit(tok[i])

RECURSIVE float(_)
float(tok) ==
    IF Len(tok) = 1 THEN DigitVal(tok[1])
    ELSE 10 * float(SubSeq(tok, 1, Len(tok) - 1)) + DigitVal(tok[Len(tok)])

\* np.array(rows, dtype=np.float64) raises ValueError on a ragged list.
Ragged(rows) == \E i, j \in 1..Len(rows) : Len(rows[i]) # Len(rows[j])

(***************************************************************************)
(* parse_data.                                                             *)
(***************************************************************************)
Raise(e, out, rd) ==
    [ok |-> FALSE, err |-> e, features |-> <<>>, label |-> <<>>,
     out |-> out, reads |-> rd]

Line(tag, text, num) == [tag |-> tag, text |-> text, num |-> num]

\* "%d" % x, for x held in halves: the integer part, truncated towards zero.
FormatD(h) == IF h >= 0 THEN h \div 2 ELSE -((-h) \div 2)

\* Line 39: the drug table's column drug_vec, each string split at the tabs.
drug_dic(drug_df, drug_vec) ==
    [id \in DOMAIN drug_df |-> split(drug_df[id][drug_vec])]

\* A lookup that takes every row's drug from the first row.
DrugKey_first(dti_df, i) == dti_df[1].Compound_ID

\* The key looked up for interaction row i (drug_col, protein_col).
DrugKey(dti_df, i) == dti_df[i].Compound_ID

ProteinKey(dti_df, i) == dti_df[i].Protein_ID

\* A drug lookup that skips the rows whose drug the table lacks.
drug_feature_skip(dti_df, drug_df, drug_vec) ==
    LET dic == drug_dic(drug_df, drug_vec)
        Known(r) == r.Compound_ID \in DOMAIN dic
        kept == SelectSeq(dti_df, Known)
        rows == [i \in 1..Len(kept) |-> dic[kept[i].Compound_ID]]
    IN  IF \/ Ragged(rows)
           \/ \E i \in 1..Len(rows) : \E t \in 1..Len(rows[i]) : ~IsNumeral(rows[i][t])
        THEN [err |-> "ValueError", array |-> <<>>]
        ELSE [err |-> "",
              array |-> [i \in 1..Len(rows) |->
                           [t \in 1..Len(rows[i]) |-> float(rows[i][t])]]]

\* Line 40: every interaction row's drug looked up, the pieces made floats.
drug_feature(dti_df, drug_df, drug_vec) ==
    LET dic == drug_dic(drug_df, drug_vec)
    IN  IF \E i \in 1..Len(dti_df) : DrugKey(dti_df, i) \notin DOMAIN dic
        THEN [err |-> "KeyError", array |-> <<>>]
        ELSE LET rows == [i \in 1..Len(dti_df) |-> dic[DrugKey(dti_df, i)]]
             IN  IF \/ Ragged(rows)
                    \/ \E i \in 1..Len(rows) : \E t \in 1..Len(rows[i]) :
                           ~IsNumeral(rows[i][t])
                 THEN [err |-> "ValueError", array |-> <<>>]
                 ELSE [err |-> "",
                       array |-> [i \in 1..Len(rows) |->
                                    [t \in 1..Len(rows[i]) |-> float(rows[i][t])]]]

\* Lines 43-44: every protein string of the table decoded, then every row's
\* protein looked up.
protein_feature(dti_df, protein_df, prot_vec) ==
    IF \E id \in DOMAIN protein_df :
           LET toks == split(protein_df[id][prot_vec])
           IN  \E t \in 1..Len(toks) : ~IsNumeral(toks[t])
    THEN [err |-> "ValueError", array |-> <<>>]
    ELSE LET dic == [id \in DOMAIN protein_df |->
                        LET toks == split(protein_df[id][prot_vec])
                        IN  [t \in 1..Len(toks) |-> float(toks[t])]]
         IN  IF \E i \in 1..Len(dti_df) : ProteinKey(dti_df, i) \notin DOMAIN dic
             THEN [err |-> "KeyError", array |-> <<>>]
             ELSE LET rows == [i \in 1..Len(dti_df) |-> dic[ProteinKey(dti_df, i)]]
                  IN  IF Ragged(rows)
                      THEN [err |-> "ValueError", array |-> <<>>]
                      ELSE [err |-> "", array |-> rows]

\* A loop body that appends the protein array before the drug array.
LoopBody_swapped(dti_df, drug_df, protein_df, drug_vec, prot_vec) ==
    LET d == drug_feature(dti_df, drug_df, drug_vec)
    IN  IF d.err # "" THEN [err |-> d.err, pair |-> <<>>]
        ELSE LET p == protein_feature(dti_df, protein_df, prot_vec)
             IN  IF p.err # "" THEN [err |-> p.err, pair |-> <<>>]
                 ELSE [err |-> "", pair |-> <<p.array, d.array>>]

\* One pass of the loop of lines 37-47: the two arrays appended, or the first
\* exception raised.
LoopBody(dti_df, drug_df, protein_df, drug_vec, prot_vec) ==
    LET d == drug_feature(dti_df, drug_df, drug_vec)
    IN  IF d.err # "" THEN [err |-> d.err, pair |-> <<>>]
        ELSE LET p == protein_feature(dti_df, protein_df, prot_vec)
             IN  IF p.err # "" THEN [err |-> p.err, pair |-> <<>>]
                 ELSE [err |-> "", pair |-> <<d.array, p.array>>]

\* Lines 36-47: the loop over drug_vecs; it stops at the first exception.
features_loop(dti_df, drug_df, protein_df, drug_vecs, prot_vec) ==
    LET body(j) == LoopBody(dti_df, drug_df, protein_df, drug_vecs[j], prot_vec)
        bad == {j \in 1..Len(drug_vecs) : body(j).err # ""}
    IN  IF bad # {}
        THEN [err |-> body(CHOOSE j \in bad : \A k \in bad : j <= k).err,
              features |-> <<>>]
        ELSE [err |-> "",
              features |-> Flatten([j \in 1..Len(drug_vecs) |-> body(j).pair])]

\* Lines 50-53: the label column and the two printed counts.
label_column(dti_df) == [i \in 1..Len(dti_df) |-> dti_df[i].Label]

\* A summary that prints the row count as the negative count.
summary_lines_rows(dti_df) ==
    LET s == SumSeq(label_column(dti_df))
    IN  <<Line("Positive", <<>>, FormatD(s)),
          Line("Negative", <<>>, FormatD(2 * Len(dti_df)))>>

summary_lines(dti_df) ==
    LET s == SumSeq(label_column(dti_df))
    IN  <<Line("Positive", <<>>, FormatD(s)),
          Line("Negative", <<>>, FormatD(2 * Len(dti_df) - s))>>

\* Lines 23-54: the body of parse_data past the early return.
parse_tables(files, dti_dir, drug_dir, protein_dir, drug_vecs, prot_vec) ==
    LET out0 == <<Line("Parsing", <<dti_dir, drug_dir>>, 0)>>
    IN  IF ~files[dti_dir].exists THEN Raise("FileNotFoundError", out0, <<>>)
        ELSE IF ~files[drug_dir].exists
        THEN Raise("FileNotFoundError", out0, <<dti_dir>>)
        ELSE IF ~files[protein_dir].exists
        THEN Raise("FileNotFoundError", out0, <<dti_dir, drug_dir>>)
        ELSE
        LET dti_df == files[dti_dir].table
            rd == <<dti_dir, drug_dir, protein_dir>>
            f == features_loop(dti_df, files[drug_dir].table,
                               files[protein_dir].table, drug_vecs, prot_vec)
        IN  IF f.err # "" THEN Raise(f.err, out0, rd)
            ELSE [ok |-> TRUE, err |-> "", features |-> f.features,
                  label |-> label_column(dti_df),
                  out |-> out0 \o summary_lines(dti_df), reads |-> rd]

\* Line 22 returned for parsing disabled.
EmptyResult == [ok |-> TRUE, err |-> "", features |-> <<>>, label |-> <<>>,
                out |-> <<>>, reads |-> <<>>]

\* A parse_data that ignores its parsing flag.
parse_data_always(files, dti_dir, drug_dir, protein_dir, drug_vecs, prot_vec, parsing) ==
    parse_tables(files, dti_dir, drug_dir, protein_dir, drug_vecs, prot_vec)

parse_data(files, dti_dir, drug_dir, protein_dir, drug_vecs, prot_vec, parsing) ==
    IF ~parsing THEN EmptyResult
    ELSE parse_tables(files, dti_dir, drug_dir, protein_dir, drug_vecs, prot_vec)

(***************************************************************************)
(* The inputs of the parser runs.                                          *)
(***************************************************************************)
VecNames == {"v1", "v2"}

ProtVec == "p1"

File(t) == [exists |-> TRUE, table |-> t]

NoFile == [exists |-> FALSE, table |-> <<>>]

DtiRow(d, p, l) == [Compound_ID |-> d, Protein_ID |-> p, Label |-> l]

\* Interaction rows: binary labels (held in halves: 2 is the label 1).
ParseRows ==
    {DtiRow("A", "X", 2), DtiRow("B", "X", 0), DtiRow("A", "Y", 0), DtiRow("B", "Y", 2)}

\* Drug rows: "1\t2" and "5\t6\t7" for A, "3\t4" and "8\t9\t10" for B.
DrugA == [v1 |-> <<"1", TAB, "2">>, v2 |-> <<"5", TAB, "6", TAB, "7">>]

DrugB == [v1 |-> <<"3", TAB, "4">>, v2 |-> <<"8", TAB, "9", TAB, "1", "0">>]

DrugTables ==
    { ("A" :> DrugA) @@ ("B" :> DrugB),
      ("A" :> DrugA),
      ("B" :> DrugB),
      \* a non-numeric piece in B's v1
      ("A" :> DrugA) @@ ("B" :> [DrugB EXCEPT !.v1 = <<"3", TAB, "x">>]),
      \* B's v2 is shorter than A's
      ("A" :> DrugA) @@ ("B" :> [DrugB EXCEPT !.v2 = <<"8", TAB, "9">>]),
      \* the same string for both drugs
      ("A" :> DrugA) @@ ("B" :> DrugA) }

ProtX == [p1 |-> <<"1", TAB, "0">>]

ProtY == [p1 |-> <<"0", TAB, "1", "2">>]

ProtTables ==
    { ("X" :> ProtX) @@ ("Y" :> ProtY),
      ("X" :> ProtX),
      \* an empty piece in Y's string
      ("X" :> ProtX) @@ ("Y" :> [p1 |-> <<"0", TAB>>]),
      \* Y's vector is longer than X's
      ("X" :> ProtX) @@ ("Y" :> [p1 |-> <<"0", TAB, "1", TAB, "1">>]) }

ParseArgs(vecs, parsing) ==
    [dti_dir |-> "dti.csv", drug_dir |-> "drug.csv", protein_dir |-> "protein.csv",
     drug_vecs |-> vecs, prot_vec |-> ProtVec, parsing |-> parsing]

Idle ==
    /\ train_dic = <<>> /\ test_dic = <<>> /\ train_params = <<>>
    /\ zip_pos = 0 /\ calls = <<>> /\ test_predicted = <<>>
    /\ result_df = <<>> /\ result_columns = <<>> /\ writes = <<>>
    /\ trace = <<>>

InitParseWith(rows, drugTables, protTables) ==
    /\ \E dti \in {NoFile} \cup {File(t) : t \in SeqsUpTo(rows, MaxRows)},
          drug \in {NoFile} \cup {File(t) : t \in drugTables},
          prot \in {NoFile} \cup {File(t) : t \in protTables} :
          fs = ("dti.csv" :> dti) @@ ("drug.csv" :> drug) @@ ("protein.csv" :> prot)
    /\ \E vecs \in SeqsUpTo(VecNames, MaxVecs), parsing \in BOOLEAN :
          args = ParseArgs(vecs, parsing)
    /\ pc = "parse_data"
    /\ ret = EmptyResult
    /\ stdout = <<>>
    /\ reads = <<>>
    /\ Idle

InitParse == InitParseWith(ParseRows, DrugTables, ProtTables)

\* A call of parse_data: it returns, or it raises.
ParseCall ==
    parse_data(fs, args.dti_dir, args.drug_dir, args.protein_dir,
               args.drug_vecs, args.prot_vec, args.parsing)

ParseReturns ==
    /\ pc = "parse_data"
    /\ ParseCall.ok
    /\ ret' = ParseCall
    /\ stdout' = stdout \o ParseCall.out
    /\ reads' = reads \o ParseCall.reads
    /\ pc' = "returned"
    /\ UNCHANGED <<fs, args, train_dic, test_dic, train_params, zip_pos, calls,
                   test_predicted, result_df, result_columns, writes, trace>>

ParseRaises ==
    /\ pc = "parse_data"
    /\ ~ParseCall.ok
    /\ ret' = ParseCall
    /\ stdout' = stdout \o ParseCall.out
    /\ reads' = reads \o ParseCall.reads
    /\ pc' = "raised"
    /\ UNCHANGED <<fs, args, train_dic, test_dic, train_params, zip_pos, calls,
                   test_predicted, result_df, result_columns, writes, trace>>

NextParse == ParseReturns \/ ParseRaises

SpecParse == InitParse /\ [][NextParse]_vars

\* The parser on label columns of every kind: the labels 0, 0.5, 1, 1.5 and -1
\* (held in halves), over one drug and one protein.
LabelRows == {DtiRow("A", "X", l) : l \in {-2, 0, 1, 2, 3}}

InitLabel ==
    InitParseWith(LabelRows, {("A" :> DrugA) @@ ("B" :> DrugB)},
                  {("X" :> ProtX) @@ ("Y" :> ProtY)})

SpecLabel == InitLabel /\ [][NextParse]_vars

(***************************************************************************)
(* Python dicts: a sequence of entries [key, val] in insertion order, the  *)
(* keys distinct.  Every value has the same shape, so that any two can be  *)
(* compared.                                                               *)
(***************************************************************************)
Val(kind, num, text, features, label) ==
    [kind |-> kind, num |-> num, text |-> text, features |-> features, label |-> label]

IntVal(n) == Val("int", n, "", <<>>, <<>>)

StrVal(t) == Val("str", 0, t, <<>>, <<>>)

NoneVal == Val("None", 0, "", <<>>, <<>>)

ListVal(f) == Val("list", 0, "", f, <<>>)

ArrayVal(l) == Val("array", 0, "", <<>>, l)

\* The mapping {"features": ..., "label": ...} parse_data returns, as a value.
DataVal(r) == Val("dict", 0, "", r.features, r.label)

Keys(d) == {d[i].key : i \in 1..Len(d)}

Get(d, k) == d[CHOOSE i \in 1..Len(d) : d[i].key = k].val

\* d[k] = v: a present key keeps its place and takes the new value.
SetKey(d, k, v) ==
    IF k \in Keys(d)
    THEN [i \in 1..Len(d) |-> IF d[i].key = k THEN [key |-> k, val |-> v] ELSE d[i]]
    ELSE Append(d, [key |-> k, val |-> v])

\* d.update(e)
RECURSIVE Update(_, _)
Update(d, e) ==
    IF e = <<>> THEN d ELSE Update(SetKey(d, Head(e).key, Head(e).val), Tail(e))

(***************************************************************************)
(* get_params.                                                             *)
(***************************************************************************)
\* Line 178: zip stops at the end of the shortest list.
ZipLen ==
    Min(Min(Len(args.test_name), Len(args.test_dti_dir)),
        Min(Len(args.test_drug_dir), Len(args.test_protein_dir)))

\* A test set read from the first interaction path, whatever its position.
TestDtiAt_first(i) == args.test_dti_dir[1]

\* Lines 180-181: the tuple zip yields at position i.
TestDtiAt(i) == args.test_dti_dir[i]

TestNameAt(i) == args.test_name[i]

\* Line 180: parse_data(test_dti, test_drug, test_protein, **type_params).
ParseTestAt(i) ==
    parse_data(fs, TestDtiAt(i), args.test_drug_dir[i], args.test_protein_dir[i],
               args.drug_vecs, args.prot_vec, TRUE)

\* Line 175: parse_data(**train_dic), the locator updated with type_params.
ParseTrain ==
    parse_data(fs, args.dti_dir, args.drug_dir, args.protein_dir,
               args.drug_vecs, args.prot_vec, args.parsing_train)

\* The mapping parse_data returns, as a dict.
ParsedDict(r) ==
    <<[key |-> "features", val |-> ListVal(r.features)],
      [key |-> "label", val |-> ArrayVal(r.label)]>>

\* Lines 156-158: a list of comma-separated layer sizes made lists of
\* integers.  Iterating over a list that was not given (None) raises TypeError,
\* int() of a piece that is no numeral ValueError.
layers_list(given) ==
    IF ~given.given THEN [err |-> "TypeError", layers |-> <<>>]
    ELSE IF \E k \in 1..Len(given.layers) :
               \E t \in 1..Len(str_split(given.layers[k], ",")) :
                   ~IsNumeral(str_split(given.layers[k], ",")[t])
    THEN [err |-> "ValueError", layers |-> <<>>]
    ELSE [err |-> "",
          layers |-> [k \in 1..Len(given.layers) |->
                        [t \in 1..Len(str_split(given.layers[k], ",")) |->
                            float(str_split(given.layers[k], ",")[t])]]]

\* Lines 155-164: the first exception of the three lists, if any.
ModelParamsError ==
    IF layers_list(args.drug_layers_list).err # ""
    THEN layers_list(args.drug_layers_list).err
    ELSE IF layers_list(args.protein_layers_list).err # ""
    THEN layers_list(args.protein_layers_list).err
    ELSE layers_list(args.fc_layers_list).err

\* Lines 141-144.
TrainParams ==
    <<[key |-> "n_epoch", val |-> IntVal(args.n_epoch)],
      [key |-> "batch_size", val |-> IntVal(args.batch_size)]>>

\* Lines 131-175: the parameter groups are built, the model parameters
\* printed, the training data parsed.
GetParams_Train ==
    /\ pc = "get_params"
    /\ ModelParamsError = ""
    /\ ret' = ParseTrain
    /\ train_params' = TrainParams
    /\ stdout' = stdout \o <<Line("summary", <<"Model parameters">>, 0)>> \o ParseTrain.out
    /\ reads' = reads \o ParseTrain.reads
    /\ IF ParseTrain.ok
       THEN /\ train_dic' = ParsedDict(ParseTrain)
            /\ zip_pos' = 1
            /\ pc' = "test_sets"
            /\ trace' = Append(trace, "parse_train")
       ELSE /\ pc' = "raised"
            /\ trace' = trace \o <<"parse_train", "raise">>
            /\ UNCHANGED <<train_dic, zip_pos>>
    /\ UNCHANGED <<fs, args, test_dic, calls, test_predicted, result_df,
                   result_columns, writes>>

\* Lines 155-158: a layer list cannot be parsed; nothing is printed or read.
GetParams_Raises ==
    /\ pc = "get_params"
    /\ ModelParamsError # ""
    /\ pc' = "raised"
    /\ trace' = Append(trace, "raise")
    /\ UNCHANGED <<fs, args, ret, stdout, reads, train_dic, test_dic, train_params,
                   zip_pos, calls, test_predicted, result_df, result_columns, writes>>

\* Lines 178-182: one step of the dict comprehension over the zipped lists.
GetParams_Test ==
    /\ pc = "test_sets"
    /\ zip_pos <= ZipLen
    /\ ret' = ParseTestAt(zip_pos)
    /\ stdout' = stdout \o ParseTestAt(zip_pos).out
    /\ reads' = reads \o ParseTestAt(zip_pos).reads
    /\ IF ParseTestAt(zip_pos).ok
       THEN /\ test_dic' = SetKey(test_dic, TestNameAt(zip_pos), DataVal(ParseTestAt(zip_pos)))
            /\ zip_pos' = zip_pos + 1
            /\ pc' = "test_sets"
            /\ trace' = Append(trace, "parse_test")
       ELSE /\ test_dic' = <<>>
            /\ pc' = "raised"
            /\ trace' = trace \o <<"parse_test", "raise">>
            /\ UNCHANGED zip_pos
    /\ UNCHANGED <<fs, args, train_dic, train_params, calls, test_predicted,
                   result_df, result_columns, writes>>

\* Line 184: the zipped lists are exhausted and get_params returns.
GetParams_Return ==
    /\ pc = "test_sets"
    /\ zip_pos > ZipLen
    /\ pc' = "get_params_returned"
    /\ trace' = Append(trace, "get_params_return")
    /\ UNCHANGED <<fs, args, ret, stdout, reads, train_dic, test_dic, train_params,
                   zip_pos, calls, test_predicted, result_df, result_columns, writes>>

NextParams == GetParams_Train \/ GetParams_Raises \/ GetParams_Test \/ GetParams_Return

(***************************************************************************)
(* The inputs of the get_params runs.                                      *)
(***************************************************************************)
\* The files: two interaction tables, a full drug table and one that lacks
\* drug B, a protein table.
TwoRows == <<DtiRow("A", "X", 2), DtiRow("B", "Y", 0)>>

OneRow == <<DtiRow("A", "Y", 2)>>

ParamsFiles ==
    ("train.csv" :> File(TwoRows)) @@ ("two.csv" :> File(TwoRows))
    @@ ("one.csv" :> File(OneRow))
    @@ ("drug.csv" :> File(("A" :> DrugA) @@ ("B" :> DrugB)))
    @@ ("drugA.csv" :> File(("A" :> DrugA)))
    @@ ("protein.csv" :> File(("X" :> ProtX) @@ ("Y" :> ProtY)))
    @@ ("missing.csv" :> NoFile)

\* A layer list as given on the command line, or None.
Layers(l) == [given |-> TRUE, layers |-> l]

NoLayers == [given |-> FALSE, layers |-> <<>>]

\* "64,32", "8", and "8,x".
LayerLists ==
    {NoLayers, Layers(<<(<<"6", "4", ",", "3", "2">>), (<<"8">>)>>),
     Layers(<<(<<"8", ",", "x">>)>>)}

\* The namespace get_args returns.  The four test lists are given (argparse
\* leaves None for an absent flag, and zip raises on it).
Namespace(dti, parsing, names, dtis, drugs, prots, output, validation, layers) ==
    [dti_dir |-> dti, drug_dir |-> "drug.csv", protein_dir |-> "protein.csv",
     parsing_train |-> parsing,
     drug_layers_list |-> Layers(<<(<<"8">>)>>),
     protein_layers_list |-> layers,
     fc_layers_list |-> Layers(<<(<<"1", "6", ",", "1">>)>>),
     test_name |-> names, test_dti_dir |-> dtis, test_drug_dir |-> drugs,
     test_protein_dir |-> prots,
     drug_vecs |-> <<"v1">>, prot_vec |-> ProtVec,
     n_epoch |-> 10, batch_size |-> 32,
     output |-> output, validation |-> validation, predict |-> ~validation]

InitParams ==
    /\ fs = ParamsFiles
    /\ \E names \in SeqsUpTo({"A", "B"}, MaxTests),
          dtis \in SeqsUpTo({"one.csv", "two.csv"}, MaxTests),
          drugs \in SeqsUpTo({"drug.csv", "drugA.csv"}, MaxTests),
          prots \in SeqsUpTo({"protein.csv"}, MaxTests),
          parsing \in BOOLEAN,
          layers \in LayerLists :
          args = Namespace("train.csv", parsing, names, dtis, drugs, prots,
                           NoneVal, FALSE, layers)
    /\ pc = "get_params"
    /\ ret = EmptyResult
    /\ stdout = <<>>
    /\ reads = <<>>
    /\ Idle

SpecParams == InitParams /\ [][NextParams]_vars

(***************************************************************************)
(* The model object and the driver.  The object (fit, predict, validation) *)
(* and the script that calls get_params and then one of the two runners    *)
(* are not part of utils.py; they are modelled from the specification:     *)
(* predict returns, for every test set it is given and in that order, a    *)
(* column of scores with one row per label, and the labels.                *)
(***************************************************************************)
\* Scores are whole numbers, distinct across test sets and rows.
Scores(k, n, p) == [i \in 1..n |-> 100 * k + 10 * i + p]

PredictOutputs(tests) ==
    { [k \in 1..Len(tests) |->
          [key |-> tests[k].key,
           predicted |-> Scores(k, Len(tests[k].val.label), p),
           label |-> tests[k].val.label]] : p \in {1, 9} }

Main_RunValidation ==
    /\ pc = "get_params_returned"
    /\ args.validation
    /\ pc' = "run_validation"
    /\ UNCHANGED <<fs, args, ret, stdout, reads, train_dic, test_dic, train_params,
                   zip_pos, calls, test_predicted, result_df, result_columns,
                   writes, trace>>

Main_RunPrediction ==
    /\ pc = "get_params_returned"
    /\ args.predict
    /\ pc' = "run_prediction"
    /\ UNCHANGED <<fs, args, ret, stdout, reads, train_dic, test_dic, train_params,
                   zip_pos, calls, test_predicted, result_df, result_columns,
                   writes, trace>>

(***************************************************************************)
(* run_validation.                                                         *)
(***************************************************************************)
\* A merge that lets the training data replace the test sets.
validation_params_tests_first(tp, output_file, trd, ted) ==
    Update(Update(SetKey(Update(<<>>, tp), "output_file", output_file), ted), trd)

\* Lines 190-195.
validation_params(tp, output_file, trd, ted) ==
    Update(Update(SetKey(Update(<<>>, tp), "output_file", output_file), trd), ted)

\* Lines 187-197: the parameters are merged and validation is called.
RunValidation_Call ==
    /\ pc = "run_validation"
    /\ stdout' = stdout \o <<Line("Validation", <<>>, 0),
                             Line("summary", <<"Validation parameters">>, 0)>>
    /\ calls' = Append(calls, [op |-> "validation",
                               kwargs |-> validation_params(train_params, args.output,
                                                            train_dic, test_dic)])
    /\ pc' = "validation"
    /\ trace' = Append(trace, "validation")
    /\ UNCHANGED <<fs, args, ret, reads, train_dic, test_dic, train_params, zip_pos,
                   test_predicted, result_df, result_columns, writes>>

\* Line 198.
Validation_Returns ==
    /\ pc = "validation"
    /\ stdout' = Append(stdout, Line("Validation is completed.", <<>>, 0))
    /\ pc' = "done"
    /\ trace' = Append(trace, "validation_return")
    /\ UNCHANGED <<fs, args, ret, reads, train_dic, test_dic, train_params, zip_pos,
                   calls, test_predicted, result_df, result_columns, writes>>

Validation_Raises ==
    /\ pc = "validation"
    /\ pc' = "raised"
    /\ trace' = Append(trace, "raise")
    /\ UNCHANGED <<fs, args, ret, stdout, reads, train_dic, test_dic, train_params,
                   zip_pos, calls, test_predicted, result_df, result_columns, writes>>

(***************************************************************************)
(* run_prediction: the result table.                                       *)
(***************************************************************************)
Cell(v) == [nan |-> FALSE, v |-> v]

NaN == [nan |-> TRUE, v |-> 0]

\* A column label: a position (after concat with ignore_index) or a tuple.
Position(k) == [named |-> FALSE, pos |-> k, name |-> <<>>]

Named(t) == [named |-> TRUE, pos |-> 0, name |-> t]

\* pd.DataFrame()
EmptyFrame == [nrows |-> 0, columns |-> <<>>, data |-> <<>>]

\* np.squeeze: an array of one element becomes a zero-dimensional array.
np_squeeze(a) ==
    IF Len(a) = 1 THEN [scalar |-> TRUE, item |-> a[1], values |-> <<>>]
    ELSE [scalar |-> FALSE, item |-> 0, values |-> a]

\* df[key] = v.  A zero-dimensional value is broadcast over the rows the frame
\* has; a list-like value sets the rows of a frame that has none, and must
\* match the rows of a frame that has some.
setitem(df, key, v) ==
    IF v.scalar
    THEN [err |-> "",
          df |-> [df EXCEPT !.columns = Append(@, key),
                            !.data = Append(@, [i \in 1..df.nrows |-> Cell(v.item)])]]
    ELSE IF df.nrows = 0
    THEN [err |-> "",
          df |-> [nrows |-> Len(v.values),
                  columns |-> Append(df.columns, key),
                  data |-> Append([c \in 1..Len(df.data) |->
                                      [i \in 1..Len(v.values) |-> NaN]],
                                  [i \in 1..Len(v.values) |-> Cell(v.values[i])])]]
    ELSE IF Len(v.values) # df.nrows
    THEN [err |-> "ValueError", df |-> df]
    ELSE [err |-> "",
          df |-> [df EXCEPT !.columns = Append(@, key),
                            !.data = Append(@, [i \in 1..df.nrows |-> Cell(v.values[i])])]]

\* Lines 216-218: the two columns of one test set.
temp_df(e) ==
    LET one == setitem(EmptyFrame, Named(<<e.key, "predicted">>), np_squeeze(e.predicted))
    IN  IF one.err # "" THEN one
        ELSE setitem(one.df, Named(<<e.key, "label">>), np_squeeze(e.label))

\* pd.concat([a, b], ignore_index=True, axis=1): the rows of both, the columns
\* of a then those of b, short columns filled with NaN, the labels renumbered.
concat(a, b) ==
    LET n == IF a.nrows >= b.nrows THEN a.nrows ELSE b.nrows
        cols == a.data \o b.data
    IN  [nrows |-> n,
         columns |-> [k \in 1..Len(cols) |-> Position(k - 1)],
         data |-> [k \in 1..Len(cols) |->
                     [i \in 1..n |-> IF i <= Len(cols[k]) THEN cols[k][i] ELSE NaN]]]

\* Lines 209-221: the loop over the test sets predict returned.
RECURSIVE result_loop(_, _, _)
result_loop(sets, df, columns) ==
    IF sets = <<>> THEN [err |-> "", df |-> df, columns |-> columns]
    ELSE LET t == temp_df(Head(sets))
         IN  IF t.err # "" THEN [err |-> t.err, df |-> df, columns |-> columns]
             ELSE result_loop(Tail(sets), concat(df, t.df),
                              columns \o <<(<<Head(sets).key, "predicted">>),
                                           (<<Head(sets).key, "label">>)>>)

\* Line 226: the truth value of output_file.
Truthy(output_file) == output_file.kind = "str" /\ output_file.text # ""

(***************************************************************************)
(* run_prediction.                                                         *)
(***************************************************************************)
\* A runner that goes on to predict after fit has raised.
AfterFit_goes_on(ok) == "predict"

\* Lines 205-206: predict is called once fit has returned; an exception of
\* fit leaves run_prediction.
AfterFit(ok) == IF ok THEN "predict" ELSE "raised"

\* Lines 201-205: the hyperparameters are added to the caller's train_dic and
\* fit is called.
RunPrediction_Fit ==
    /\ pc = "run_prediction"
    /\ stdout' = Append(stdout, Line("Prediction", <<>>, 0))
    /\ train_dic' = Update(train_dic, train_params)
    /\ calls' = Append(calls, [op |-> "fit", kwargs |-> Update(train_dic, train_params)])
    /\ pc' = "fit"
    /\ trace' = Append(trace, "fit")
    /\ UNCHANGED <<fs, args, ret, reads, test_dic, train_params, zip_pos,
                   test_predicted, result_df, result_columns, writes>>

\* Line 206: fit has returned and predict is called.
Fit_Returns ==
    /\ pc = "fit"
    /\ calls' = Append(calls, [op |-> "predict", kwargs |-> test_dic])
    /\ pc' = AfterFit(TRUE)
    /\ trace' = trace \o <<"fit_return", "predict">>
    /\ UNCHANGED <<fs, args, ret, stdout, reads, train_dic, test_dic, train_params,
                   zip_pos, test_predicted, result_df, result_columns, writes>>

Fit_Raises ==
    /\ pc = "fit"
    /\ pc' = AfterFit(FALSE)
    /\ trace' = Append(trace, "raise")
    /\ UNCHANGED <<fs, args, ret, stdout, reads, train_dic, test_dic, train_params,
                   zip_pos, calls, test_predicted, result_df, result_columns, writes>>

\* Lines 206-223: predict has returned and the result table is built.
Predict_Returns ==
    /\ pc = "predict"
    /\ \E out \in PredictOutputs(test_dic) :
          LET r == result_loop(out, EmptyFrame, <<>>)
          IN  /\ test_predicted' = out
              /\ result_df' = r.df
              /\ result_columns' = r.columns
              /\ IF r.err # ""
                 THEN /\ pc' = "raised"
                      /\ trace' = trace \o <<"predict_return", "raise">>
                      /\ UNCHANGED stdout
                 ELSE /\ pc' = "save"
                      /\ trace' = Append(trace, "predict_return")
                      /\ stdout' = Append(stdout, Line("Prediction is completed.", <<>>, 0))
    /\ UNCHANGED <<fs, args, ret, reads, train_dic, test_dic, train_params, zip_pos,
                   calls, writes>>

Predict_Raises ==
    /\ pc = "predict"
    /\ pc' = "raised"
    /\ trace' = Append(trace, "raise")
    /\ UNCHANGED <<fs, args, ret, stdout, reads, train_dic, test_dic, train_params,
                   zip_pos, calls, test_predicted, result_df, result_columns, writes>>

\* Line 226: no output file was given.
Save_Skips ==
    /\ pc = "save"
    /\ ~Truthy(args.output)
    /\ pc' = "done"
    /\ UNCHANGED <<fs, args, ret, stdout, reads, train_dic, test_dic, train_params,
                   zip_pos, calls, test_predicted, result_df, result_columns,
                   writes, trace>>

\* Lines 227-229: the columns are named and the table is written.
Save_Writes ==
    /\ pc = "save"
    /\ Truthy(args.output)
    /\ result_columns # <<>>
    /\ stdout' = Append(stdout, Line("save to", <<args.output.text>>, 0))
    /\ result_df' = [result_df EXCEPT
                        !.columns = [k \in 1..Len(result_columns) |->
                                        Named(result_columns[k])]]
    /\ writes' = Append(writes, [path |-> args.output.text, table |-> result_df'])
    /\ pc' = "done"
    /\ trace' = Append(trace, "write")
    /\ UNCHANGED <<fs, args, ret, reads, train_dic, test_dic, train_params, zip_pos,
                   calls, test_predicted, result_columns>>

\* Line 228: pd.MultiIndex.from_tuples([]) raises TypeError.
Save_Raises ==
    /\ pc = "save"
    /\ Truthy(args.output)
    /\ result_columns = <<>>
    /\ stdout' = Append(stdout, Line("save to", <<args.output.text>>, 0))
    /\ pc' = "raised"
    /\ trace' = Append(trace, "raise")
    /\ UNCHANGED <<fs, args, ret, reads, train_dic, test_dic, train_params, zip_pos,
                   calls, test_predicted, result_df, result_columns, writes>>

(***************************************************************************)
(* Whole runs: get_params, then one of the two runners.                    *)
(***************************************************************************)
NextRun ==
    \/ GetParams_Train \/ GetParams_Raises \/ GetParams_Test \/ GetParams_Return
    \/ Main_RunValidation \/ Main_RunPrediction
    \/ RunValidation_Call \/ Validation_Returns \/ Validation_Raises
    \/ RunPrediction_Fit \/ Fit_Returns \/ Fit_Raises
    \/ Predict_Returns \/ Predict_Raises
    \/ Save_Skips \/ Save_Writes \/ Save_Raises

\* A test set of a run: a name, an interaction table and a drug table.
RunSets ==
    {"A", "B", "features"}
        \X {<<"one.csv", "drug.csv">>, <<"two.csv", "drug.csv">>, <<"two.csv", "drugA.csv">>}

InitRun ==
    /\ fs = ParamsFiles
    /\ \E sets \in SeqsUpTo(RunSets, MaxTests),
          dti \in {"train.csv", "missing.csv"},
          parsing \in BOOLEAN,
          output \in {NoneVal, StrVal("out.csv")},
          validation \in BOOLEAN,
          layers \in LayerLists :
          args = Namespace(dti, parsing,
                           [i \in 1..Len(sets) |-> sets[i][1]],
                           [i \in 1..Len(sets) |-> sets[i][2][1]],
                           [i \in 1..Len(sets) |-> sets[i][2][2]],
                           [i \in 1..Len(sets) |-> "protein.csv"],
                           output, validation, layers)
    /\ pc = "get_params"
    /\ ret = EmptyResult
    /\ stdout = <<>>
    /\ reads = <<>>
    /\ Idle

SpecRun == InitRun /\ [][NextRun]_vars

(***************************************************************************)
(* Claims about parse_data, checked under SpecParse.                       *)
(***************************************************************************)
DtiTable == fs[args.dti_dir].table

DrugTable == fs[args.drug_dir].table

ProteinTable == fs[args.protein_dir].table

\* The numeric vector a tab-delimited string stands for.
Decode(s) == [t \in 1..Len(split(s)) |-> float(split(s)[t])]

\* C1: when parse_data (parsing enabled) returns, the drug array of every
\* requested feature name v has one row per interaction row, row i being the
\* vector decoded from column v of the drug table at the Compound_ID of
\* interaction row i; the protein array that follows it has one row per
\* interaction row, row i being the decoded prot_vec vector of the Protein_ID
\* of interaction row i.
C1_RowsFollowInteractions ==
    (pc = "returned" /\ args.parsing) =>
        \A j \in 1..Len(args.drug_vecs) :
            /\ 2 * j <= Len(ret.features)
            /\ Len(ret.features[2 * j - 1]) = Len(DtiTable)
            /\ Len(ret.features[2 * j]) = Len(DtiTable)
            /\ \A i \in 1..Len(DtiTable) :
                  /\ DtiTable[i].Compound_ID \in DOMAIN DrugTable
                  /\ ret.features[2 * j - 1][i] =
                        Decode(DrugTable[DtiTable[i].Compound_ID][args.drug_vecs[j]])
                  /\ DtiTable[i].Protein_ID \in DOMAIN ProteinTable
                  /\ ret.features[2 * j][i] =
                        Decode(ProteinTable[DtiTable[i].Protein_ID][args.prot_vec])

\* The example of the specification: drugs A:"1\t2", B:"3\t4" and the
\* interactions [(A,X),(B,X)] give the drug array [[1,2],[3,4]].
C1_Witness ==
    /\ pc = "returned" /\ args.parsing
    /\ Len(DtiTable) = 2
    /\ DtiTable[1].Compound_ID = "A" /\ DtiTable[2].Compound_ID = "B"
    /\ DtiTable[1].Protein_ID = "X" /\ DtiTable[2].Protein_ID = "X"
    /\ args.drug_vecs = <<"v1">>
    /\ ret.features[1] = <<(<<1, 2>>), (<<3, 4>>)>>

\* C2: when parse_data (parsing enabled) returns for k requested names, the
\* features list has length 2k, and for every j its entry 2j-1 is the drug
\* array of the j-th name and its entry 2j the protein array (counting from 1).
C2_Interleaved ==
    (pc = "returned" /\ args.parsing) =>
        /\ Len(ret.features) = 2 * Len(args.drug_vecs)
        /\ \A j \in 1..Len(args.drug_vecs) :
              /\ ret.features[2 * j - 1] =
                    drug_feature(DtiTable, DrugTable, args.drug_vecs[j]).array
              /\ ret.features[2 * j] =
                    protein_feature(DtiTable, ProteinTable, args.prot_vec).array

C2_Witness ==
    /\ pc = "returned" /\ args.parsing
    /\ args.drug_vecs = <<"v2", "v1">>
    /\ Len(DtiTable) = 2
    /\ Len(ret.features) = 4
    /\ ret.features[1] # ret.features[3]
    /\ ret.features[2] # ret.features[1]

\* Some interaction row names a drug or a protein its table lacks.
MissingCompound == \E i \in 1..Len(DtiTable) : DtiTable[i].Compound_ID \notin DOMAIN DrugTable

MissingProtein == \E i \in 1..Len(DtiTable) : DtiTable[i].Protein_ID \notin DOMAIN ProteinTable

TablesExist ==
    fs[args.dti_dir].exists /\ fs[args.drug_dir].exists /\ fs[args.protein_dir].exists

CallOver == pc \in {"returned", "raised"}

\* C3, as claimed: whenever parse_data (parsing enabled) is given an
\* interaction row whose Compound_ID or Protein_ID its table lacks, the call
\* raises a lookup error and returns nothing, for every list of requested names.
C3_AsClaimed ==
    (CallOver /\ args.parsing /\ TablesExist /\ (MissingCompound \/ MissingProtein)) =>
        (pc = "raised" /\ ret.err = "KeyError")

\* C3, amended: with at least one requested name the call raises and returns
\* nothing: a KeyError when a Compound_ID is missing, a KeyError or an earlier
\* ValueError (a malformed or ragged feature string) when only a Protein_ID
\* is; with no requested name nothing is looked up and the call returns an
\* empty features list.
C3_Amended ==
    (CallOver /\ args.parsing /\ TablesExist /\ (MissingCompound \/ MissingProtein)) =>
        IF args.drug_vecs # <<>>
        THEN /\ pc = "raised"
             /\ ret.features = <<>> /\ ret.label = <<>>
             /\ ret.err \in {"KeyError", "ValueError"}
             /\ MissingCompound => ret.err = "KeyError"
        ELSE pc = "returned" /\ ret.features = <<>>

C3_Witness ==
    /\ pc = "raised" /\ args.parsing /\ TablesExist
    /\ MissingProtein /\ ~MissingCompound
    /\ Len(args.drug_vecs) = 2
    /\ ret.err = "KeyError"

\* C4: with parsing disabled parse_data returns empty features and an empty
\* label whatever its other arguments (missing files included), reads no
\* table and prints nothing.
C4_DisabledIsEmpty ==
    (pc # "parse_data" /\ ~args.parsing) =>
        /\ pc = "returned"
        /\ ret.ok /\ ret.features = <<>> /\ ret.label = <<>>
        /\ reads = <<>>
        /\ stdout = <<>>

C4_Witness ==
    /\ pc = "returned" /\ ~args.parsing
    /\ ~fs[args.dti_dir].exists
    /\ args.drug_vecs # <<>>
    /\ ret.features = <<>>

(***************************************************************************)
(* Claims about the printed label counts, checked under SpecLabel.         *)
(***************************************************************************)
SummaryPrinted == pc = "returned" /\ args.parsing /\ Len(stdout) = 3

PrintedPositive == stdout[2].num

PrintedNegative == stdout[3].num

IntegerLabels == \A i \in 1..Len(DtiTable) : DtiTable[i].Label % 2 = 0

\* C5, as claimed: for every interaction table whose summary is printed, the
\* printed positive count plus the printed negative count is the number of
\* interaction rows.
C5_AsClaimed ==
    SummaryPrinted => PrintedPositive + PrintedNegative = Len(DtiTable)

\* C5, amended: the same for every interaction table whose Label values are
\* all integers; the positive count printed is then the sum of the Label
\* column and the negative count the row count minus that sum.
C5_Amended ==
    (pc = "returned" /\ args.parsing) =>
        /\ Len(stdout) = 3
        /\ stdout[2].tag = "Positive" /\ stdout[3].tag = "Negative"
        /\ IntegerLabels =>
              /\ PrintedPositive + PrintedNegative = Len(DtiTable)
              /\ 2 * PrintedPositive = SumSeq(label_column(DtiTable))

C5_Witness ==
    /\ SummaryPrinted
    /\ Len(DtiTable) = 2
    /\ DtiTable[1].Label = 2 /\ DtiTable[2].Label = 0
    /\ PrintedPositive = 1 /\ PrintedNegative = 1

(***************************************************************************)
(* Claims about get_params, checked under SpecParams.                      *)
(***************************************************************************)
\* What parse_data gives for the paths at position i of the test lists.
ParseOfPosition(i) ==
    parse_data(fs, args.test_dti_dir[i], args.test_drug_dir[i],
               args.test_protein_dir[i], args.drug_vecs, args.prot_vec, TRUE)

PathsOfPosition(i) ==
    <<args.test_dti_dir[i], args.test_drug_dir[i], args.test_protein_dir[i]>>

ShortestList ==
    CHOOSE m \in 0..Len(args.test_name) :
        /\ m <= Len(args.test_dti_dir) /\ m <= Len(args.test_drug_dir)
        /\ m <= Len(args.test_protein_dir)
        /\ m \in {Len(args.test_name), Len(args.test_dti_dir),
                  Len(args.test_drug_dir), Len(args.test_protein_dir)}

TrainReads ==
    IF args.parsing_train THEN <<args.dti_dir, args.drug_dir, args.protein_dir>>
    ELSE <<>>

\* The files of the positions below the shortest length are read, in order,
\* and no other.
ReadsStopAtShortest ==
    reads = TrainReads \o Flatten([i \in 1..ShortestList |-> PathsOfPosition(i)])

\* C6, as claimed: when get_params returns, the test mapping holds exactly
\* one entry for each position below the length of the shortest list, keyed
\* by the name at that position and equal to the parse of the paths at that
\* position; the positions beyond are dropped and their files are not read.
C6_AsClaimed ==
    pc = "get_params_returned" =>
        /\ Len(test_dic) = ShortestList
        /\ \A i \in 1..ShortestList :
              /\ test_dic[i].key = args.test_name[i]
              /\ test_dic[i].val = DataVal(ParseOfPosition(i))
        /\ ReadsStopAtShortest

\* C6, amended: the mapping holds one entry for each distinct name among the
\* positions below the shortest length, in the order of first appearance, equal
\* to the parse of the paths at the last such position that carries the name
\* (one entry per position when the names are distinct); every position below
\* the shortest length is parsed, and the positions beyond are dropped and
\* their files are not read.
C6_Amended ==
    pc = "get_params_returned" =>
        LET m == ShortestList
            First(i) == \A j \in 1..(i - 1) : args.test_name[j] # args.test_name[i]
            Last(i) == \A j \in (i + 1)..m : args.test_name[j] # args.test_name[i]
            firsts == SelectSeq([i \in 1..m |-> i], First)
        IN  /\ Len(test_dic) = Len(firsts)
            /\ \A k \in 1..Len(firsts) :
                  /\ test_dic[k].key = args.test_name[firsts[k]]
                  /\ \E i \in 1..m :
                        /\ args.test_name[i] = test_dic[k].key
                        /\ Last(i)
                        /\ test_dic[k].val = DataVal(ParseOfPosition(i))
            /\ ReadsStopAtShortest

\* Two names, one interaction path: one entry, the second name dropped.
C6_Witness ==
    /\ pc = "get_params_returned"
    /\ args.test_name = <<"A", "B">>
    /\ args.test_dti_dir = <<"one.csv">>
    /\ Len(args.test_drug_dir) = 2
    /\ Len(test_dic) = 1
    /\ test_dic[1].key = "A"
    /\ test_dic[1].val.label = <<2>>

(***************************************************************************)
(* Claims about the runners, checked under SpecRun.                        *)
(***************************************************************************)
Happened(e) == \E i \in 1..Len(trace) : trace[i] = e

\* A column holds the given values, in order, and nothing else but the
\* missing-value filler below them.
ColumnHolds(col, values) ==
    /\ Len(col) >= Len(values)
    /\ \A i \in 1..Len(col) :
          IF i <= Len(values) THEN col[i] = Cell(values[i]) ELSE col[i].nan

ExpectedColumns ==
    Flatten([k \in 1..Len(test_predicted) |->
                <<Named(<<test_predicted[k].key, "predicted">>),
                  Named(<<test_predicted[k].key, "label">>)>>])

\* C7: for every mapping predict returns, the result table has two adjacent
\* columns per test set, in the mapping's order, the first holding exactly the
\* test set's predicted values and the second exactly its labels, in row
\* order, none added, dropped or moved; the written table names them
\* (name, predicted) and (name, label).
C7_AsClaimed ==
    (Happened("predict_return") /\ pc \in {"save", "done"}) =>
        /\ Len(result_df.data) = 2 * Len(test_predicted)
        /\ \A k \in 1..Len(test_predicted) :
              /\ ColumnHolds(result_df.data[2 * k - 1], test_predicted[k].predicted)
              /\ ColumnHolds(result_df.data[2 * k], test_predicted[k].label)
        /\ \A w \in 1..Len(writes) : writes[w].table.columns = ExpectedColumns

\* C8: once predict has returned, run_prediction ends without an error, having
\* written the table exactly once, at the given path, if an output path was
\* given, and nothing if none was.
C8_AsClaimed ==
    (Happened("predict_return") /\ pc \in {"done", "raised"}) =>
        /\ pc = "done"
        /\ IF args.output.kind = "str"
           THEN Len(writes) = 1 /\ writes[1].path = args.output.text
           ELSE writes = <<>>

Rank(e) ==
    CASE e = "parse_train" -> 1
      [] e = "parse_test" -> 2
      [] e = "get_params_return" -> 3
      [] e \in {"fit", "validation"} -> 4
      [] e \in {"fit_return", "validation_return"} -> 5
      [] e = "predict" -> 6
      [] e = "predict_return" -> 7
      [] e = "write" -> 8
      [] e = "raise" -> 9

Count(e) == Cardinality({i \in 1..Len(trace) : trace[i] = e})

\* C9: the stages of a run follow one another in the order parse (the training
\* data, then every test set, then the return of get_params), fit, predict,
\* write; each of fit, predict and write happens at most once and starts only
\* after the one before it has returned; a failure is the last thing that
\* happens in a run, and a run that failed has written nothing.
C9_StageOrder ==
    /\ \A i, j \in 1..Len(trace) :
          i < j => \/ Rank(trace[i]) < Rank(trace[j])
                   \/ trace[i] = "parse_test" /\ trace[j] = "parse_test"
    /\ Count("parse_test") <= ZipLen
    /\ Happened("get_params_return") =>
          Count("parse_test") = ZipLen /\ Happened("parse_train")
    /\ Happened("fit") => Happened("get_params_return")
    /\ Happened("predict") => Happened("fit_return")
    /\ Happened("write") => Happened("predict_return")
    /\ Len(writes) = Count("write")
    /\ Happened("raise") <=> pc = "raised"
    /\ pc = "raised" => writes = <<>>
    /\ Len(calls) = Count("fit") + Count("predict") + Count("validation")

C9_Witness ==
    /\ pc = "done"
    /\ trace = <<"parse_train", "parse_test", "parse_test", "get_params_return",
                 "fit", "fit_return", "predict", "predict_return", "write">>
    /\ Len(reads) = 9
    /\ Len(writes) = 1

KeySeq(d) == [i \in 1..Len(d) |-> d[i].key]

ValidationKeys == <<"n_epoch", "batch_size", "output_file", "features", "label">>

ValidationCalled == Happened("validation")

\* What validation is handed: the five keys of the hyperparameters, the output
\* file and the training data, then the test-set names not among them; a key a
\* test set shares with them carries the test set.
C10_Kwargs ==
    ValidationCalled =>
        /\ Len(calls) = 1
        /\ calls[1].op = "validation"
        /\ LET kw == calls[1].kwargs
               NotShared(k) == \A i \in 1..Len(ValidationKeys) : ValidationKeys[i] # k
           IN  /\ KeySeq(kw) = ValidationKeys \o SelectSeq(KeySeq(test_dic), NotShared)
               /\ \A i \in 1..Len(kw) :
                     kw[i].val =
                        IF kw[i].key \in Keys(test_dic) THEN Get(test_dic, kw[i].key)
                        ELSE IF kw[i].key \in {"features", "label"}
                        THEN Get(train_dic, kw[i].key)
                        ELSE IF kw[i].key = "output_file" THEN args.output
                        ELSE Get(train_params, kw[i].key)

\* What the runners do to the caller's mappings.
C10_Step ==
    /\ pc \in {"run_validation", "validation"} =>
          /\ train_params' = train_params
          /\ train_dic' = train_dic
          /\ test_dic' = test_dic
    /\ pc = "run_prediction" =>
          /\ train_params' = train_params
          /\ test_dic' = test_dic
          /\ KeySeq(train_dic') = KeySeq(train_dic) \o <<"n_epoch", "batch_size">>
          /\ Get(train_dic', "n_epoch") = IntVal(args.n_epoch)
          /\ Get(train_dic', "batch_size") = IntVal(args.batch_size)
          /\ \A k \in Keys(train_dic) : Get(train_dic', k) = Get(train_dic, k)

\* C10: run_validation calls validation exactly once, with the merge of the
\* hyperparameters, output_file, the training mapping and the test mapping, a
\* later group replacing an earlier one on a shared key, and leaves the
\* caller's three mappings as they were; run_prediction adds the
\* hyperparameters to the caller's train_dic.
C10_ValidationMerge == [](C10_Kwargs) /\ [][C10_Step]_vars

\* A test set named "features" has replaced the training features.
C10_Witness ==
    /\ pc = "done"
    /\ ValidationCalled
    /\ KeySeq(test_dic) = <<"features", "A">>
    /\ Get(calls[1].kwargs, "features").kind = "dict"
    /\ Get(train_dic, "features").kind = "list"
    /\ Len(calls[1].kwargs) = 6

====
